---- MODULE Spec2Model ----
(***************************************************************************)
(* VarianceReduction query strategy                                        *)
(* (src/libact/query_strategies/variance_reduction.py).                    *)
(*                                                                         *)
(* The model keeps one strategy object and its dataset.  make_query runs   *)
(* in the parent process; the E tasks run in the processes of a            *)
(* multiprocessing.Pool, each on the unpickled copy of the chunk of        *)
(* arguments it was sent.  Objects that copy.copy shares between its       *)
(* source and its result live in a heap, one heap per process memory.      *)
(*                                                                         *)
(* Numbers are fixed point: probabilities are percentages (0..100), a      *)
(* feature row is a sequence of integers, a label is 0..label_count-1.     *)
(*                                                                         *)
(* The Dataset, the classifier and estVar are collaborators whose code is  *)
(* outside this file: the dataset is an ordered sequence of entries, the   *)
(* classifier a linear model refitted from scratch by train, estVar the    *)
(* regularised inverse of the Fisher information of one-feature rows.      *)
(***************************************************************************)
EXTENDS Integers, Sequences, FiniteSets, TLC

\* ---------------------------------------------------------------- bounds
\* Longest unlabeled pool of the datasets of InitDeep.
MaxUnlabeled == 5
\* Longest unlabeled pool of the datasets of InitWide.
MaxSmallPool == 2
\* Largest n_jobs passed to make_query.
MaxJobs == 2
\* Largest number of pools alive at once (a new call needs room for its pool).
MaxPools == 1

\* ------------------------------------------------------- input alphabets
\* Well-formed feature rows (one feature) and the row of the wrong width.
GoodRows == {<<0>>, <<1>>}
BadRow == <<>>
Rows == GoodRows \cup {BadRow}

\* The classifier classes a strategy is built with.  "attr": train rebinds
\* attributes of the object itself.  "inner": the object holds a reference
\* to an estimator object and train refits that estimator in place.
Kinds == {"attr", "inner"}

Optimalities == {"trace", "determinant"}
Sigmas == {0, 1}

\* The sequence s as an explicit tuple (the same value, evaluated once).
Tup(s) == s \o <<>>

SeqsUpTo(S, n) == UNION {[1..k -> S] : k \in 0..n}

Entry(x, lab) == [x |-> x, y |-> lab]
Labeled(x, l) == Entry(x, <<l>>)
Unlabeled(x) == Entry(x, <<>>)

\* The labeled parts the datasets start with.
LabeledChoices ==
    { <<>>,
      <<Labeled(<<0>>, 0), Labeled(<<1>>, 1)>> }

Pool2Data(pool) == [k \in 1..Len(pool) |-> Unlabeled(pool[k])]

\* ------------------------------------------------------------- Dataset
\* Identifiers of entries are their 0-based positions in the dataset.
RECURSIVE SelectIdx(_, _, _)
SelectIdx(data, k, wantLabeled) ==
    IF k > Len(data) THEN <<>>
    ELSE IF (data[k].y # <<>>) = wantLabeled
         THEN <<k>> \o SelectIdx(data, k + 1, wantLabeled)
         ELSE SelectIdx(data, k + 1, wantLabeled)

get_labeled_entries(data) ==
    LET idx == SelectIdx(data, 1, TRUE)
    IN Tup([k \in 1..Len(idx) |-> <<data[idx[k]].x, data[idx[k]].y[1]>>])

get_unlabeled_entries(data) ==
    LET idx == SelectIdx(data, 1, FALSE)
    IN Tup([k \in 1..Len(idx) |-> <<idx[k] - 1, data[idx[k]].x>>])

get_num_of_labels(data) ==
    Cardinality({data[k].y[1] : k \in {j \in 1..Len(data) : data[j].y # <<>>}})

\* ---------------------------------------------------------- Classifier
\* Trained state of an estimator: one coefficient and one intercept per label.
Unfitted == [fitted |-> FALSE, coef |-> <<>>, intercept |-> <<>>]

RECURSIVE SumSeq(_)
SumSeq(s) == IF s = <<>> THEN 0 ELSE Head(s) + SumSeq(Tail(s))

Sign(b) == IF b THEN 1 ELSE -1

\* A full refit: the result depends on the training data alone.
Fit(X, y, label_count) ==
    [fitted |-> TRUE,
     coef |-> Tup([i \in 1..label_count |->
                 SumSeq([j \in 1..Len(X) |-> Sign(y[j] = i - 1) * X[j][1]])]),
     intercept |-> Tup([i \in 1..label_count |->
                 SumSeq([j \in 1..Len(X) |-> Sign(y[j] = i - 1)])])]

ScoreLimit == 2
Clamp(v) == IF v > ScoreLimit THEN ScoreLimit
            ELSE IF v < -ScoreLimit THEN -ScoreLimit ELSE v

\* The only estimator address of a process memory.
Addr == 1

\* State a classifier object predicts with: its own, or its estimator's.
Params(obj, h) == IF obj.kind = "attr" THEN obj.own ELSE h[obj.inner]

NewModel(kind) == [kind |-> kind, own |-> Unfitted, inner |-> Addr]

\* copy.copy: a new object whose attributes are those of the source, so a
\* referenced estimator is shared by the source and the copy.
copy_copy(obj) == [kind |-> obj.kind, own |-> obj.own, inner |-> obj.inner]

\* clf.train(Dataset(X, y)): the object trained and the heap afterwards.
train(obj, h, X, y, label_count) ==
    IF obj.kind = "attr"
    THEN [obj |-> [obj EXCEPT !.own = Fit(X, y, label_count)], heap |-> h]
    ELSE [obj |-> obj, heap |-> [h EXCEPT ![obj.inner] = Fit(X, y, label_count)]]

WellFormed(x) == Len(x) = 1

\* clf.predict_real(rows): one row of real-valued scores per input row.
predict_real(obj, h, rows) ==
    LET p == Params(obj, h)
    IN Tup([r \in 1..Len(rows) |->
          Tup([i \in 1..Len(p.coef) |->
                 Clamp(p.coef[i] * rows[r][1] + p.intercept[i])])])

predict_raises(obj, h, rows) ==
    \/ ~Params(obj, h).fitted
    \/ \E r \in 1..Len(rows) : ~WellFormed(rows[r])

\* sigmoid = lambda x: 1 / (1 + np.exp(-x)), in percent, on the clamped scores.
SigmoidTable == <<12, 27, 50, 73, 88>>
sigmoid1(v) == SigmoidTable[v + ScoreLimit + 1]
sigmoid(m) == Tup([r \in 1..Len(m) |-> Tup([i \in 1..Len(m[r]) |-> sigmoid1(m[r][i])])])

\* --------------------------------------------------------------- estVar
Percent == 100
Scale == 10000
\* Curvature p(1-p) summed over the labels, times the squared feature.
Curvature(p, x) == SumSeq([i \in 1..Len(p) |-> p[i] * (Percent - p[i])]) * x[1] * x[1]

\* Trace of the inverse of (Fisher information + 1/sigma on the diagonal),
\* in hundredths: 1 / (F + 1/sigma) = sigma / (sigma F + 1).
estVar(sg, PI, X, epi, ex) ==
    LET F == SumSeq([j \in 1..Len(X) |-> Curvature(PI[j], X[j])]) + Curvature(epi, ex)
    IN (Percent * Scale * sg) \div (sg * F + Scale)

\* ---------------------------------------------------- VarianceReduction
Phi(sg, PI, X, epi, ex, label_count, feature_count) == estVar(sg, PI, X, epi, ex)

Front(s) == SubSeq(s, 1, Len(s) - 1)
Last(s) == s[Len(s)]

\* E_loop with every Phi value weighted by query_point[-1][0].
RECURSIVE E_loop_weight0(_, _, _, _, _, _, _, _, _, _)
E_loop_weight0(self_model, sg, X, y, qx, query_point, label_count, i, ret, h) ==
    IF i >= label_count THEN [raised |-> FALSE, ret |-> ret, heap |-> h]
    ELSE LET t == train(copy_copy(self_model), h, Append(X, qx), Append(y, i),
                        label_count)
             PI == sigmoid(predict_real(t.obj, t.heap, Append(X, qx)))
             phi == Phi(sg, Front(PI), X, Last(PI), qx, label_count, Len(X[1]))
         IN E_loop_weight0(self_model, sg, X, y, qx, query_point, label_count, i + 1,
                           ret + Last(query_point)[1] * phi, t.heap)

\* The body of "for i in range(label_count)" of E, from label i on: a copy of
\* self.model is trained on the labeled data plus (qx, i), and Phi of its
\* predictions is weighted by query_point[-1][i].
RECURSIVE E_loop(_, _, _, _, _, _, _, _, _, _)
E_loop(self_model, sg, X, y, qx, query_point, label_count, i, ret, h) ==
    IF i >= label_count THEN [raised |-> FALSE, ret |-> ret, heap |-> h]
    ELSE LET t == train(copy_copy(self_model), h, Append(X, qx), Append(y, i),
                        label_count)
             PI == sigmoid(predict_real(t.obj, t.heap, Append(X, qx)))
             phi == Phi(sg, Front(PI), X, Last(PI), qx, label_count, Len(X[1]))
         IN E_loop(self_model, sg, X, y, qx, query_point, label_count, i + 1,
                   ret + Last(query_point)[i + 1] * phi, t.heap)

\* E(self, args) in a process whose estimator objects are h.
E(self_model, sg, X, y, qx, clf, label_count, h) ==
    IF predict_raises(clf, h, <<qx>>)
    THEN [raised |-> TRUE, ret |-> 0, heap |-> h]
    ELSE E_loop(self_model, sg, X, y, qx, sigmoid(predict_real(clf, h, <<qx>>)),
                label_count, 0, 0, h)

\* Pool.map's default chunksize: divmod(len(iterable), len(pool) * 4), rounded up.
ChunkFactor == 4
ChunkSize(n, jobs) ==
    LET q == n \div (jobs * ChunkFactor)
    IN IF n % (jobs * ChunkFactor) # 0 THEN q + 1 ELSE q

NumChunks(n, jobs) == (n + ChunkSize(n, jobs) - 1) \div ChunkSize(n, jobs)

\* The 1-based positions of the candidates of chunk c.
ChunkItems(n, jobs, c) ==
    LET cs == ChunkSize(n, jobs)
        lo == (c - 1) * cs + 1
        hi == IF c * cs < n THEN c * cs ELSE n
    IN [k \in 1..(hi - lo + 1) |-> lo + k - 1]

\* The rows of the candidates of chunk c.
ChunkRows(pool, jobs, c) ==
    LET items == ChunkItems(Len(pool), jobs, c)
    IN Tup([k \in 1..Len(items) |-> pool[items[k]]])

\* min(errors)
RECURSIVE PyMin(_)
PyMin(s) == IF Len(s) = 1 THEN s[1]
            ELSE LET m == PyMin(Tail(s)) IN IF m < s[1] THEN m ELSE s[1]

\* PyIndex finding the last element equal to v.
RECURSIVE PyIndex_last(_, _)
PyIndex_last(s, v) == IF Last(s) = v THEN Len(s) - 1 ELSE PyIndex_last(Front(s), v)

\* errors.index(v): 0-based position of the first element equal to v.
RECURSIVE PyIndex(_, _)
PyIndex(s, v) == IF s[1] = v THEN 0 ELSE 1 + PyIndex(Tail(s), v)

\* SelectId returning the position in errors instead of the identifier there.
SelectId_position(unlabeled_entry_ids, errs) == PyIndex(errs, PyMin(errs))

\* unlabeled_entry_ids[errors.index(min(errors))]
SelectId(unlabeled_entry_ids, errs) == unlabeled_entry_ids[PyIndex(errs, PyMin(errs)) + 1]

RECURSIVE Concat(_)
Concat(ss) == IF ss = <<>> THEN <<>> ELSE Head(ss) \o Concat(Tail(ss))

\* ------------------------------------------------------------------ state
VARIABLES
    dataset,     \* self.dataset: sequence of entries [x, y], y = <<>> when unlabeled
    model,       \* self.model
    optimality,  \* self.optimality
    sigma,       \* self.sigma
    heap,        \* estimator objects of the parent process
    pc,          \* where the parent is: "idle", "trained", "mapping", "collected"
    n_jobs,      \* argument of the call in progress (0: none)
    clf,         \* the baseline classifier of the call in progress
    livePools,   \* number of pools created and not terminated
    taskq,       \* next chunk the pool hands to a worker
    running,     \* chunk -> the worker process running it
    results,     \* chunk -> [st, vals] as received by the parent
    errors,      \* the list p.map returned
    outcome,     \* how the last call ended: [kind, value, origin]
    selected1    \* identifiers returned by the calls with n_jobs = 1

vars == <<dataset, model, optimality, sigma, heap, pc, n_jobs, clf, livePools,
          taskq, running, results, errors, outcome, selected1>>

\* Locals of make_query, functions of the dataset, which no call changes.
labeled_entries == get_labeled_entries(dataset)
Xlabeled == Tup([k \in 1..Len(labeled_entries) |-> labeled_entries[k][1]])
y_ == Tup([k \in 1..Len(labeled_entries) |-> labeled_entries[k][2]])
unlabeled_entries == get_unlabeled_entries(dataset)
unlabeled_entry_ids == Tup([k \in 1..Len(unlabeled_entries) |-> unlabeled_entries[k][1]])
X_pool == Tup([k \in 1..Len(unlabeled_entries) |-> unlabeled_entries[k][2]])
label_count == get_num_of_labels(dataset)

NoOutcome == [kind |-> "none", value |-> 0, origin |-> "none"]
NoClf == NewModel("attr")

\* __init__: the object as constructed from its keyword arguments.
Constructed(data, kind, opt, sg) ==
    /\ dataset = data
    /\ model = NewModel(kind)
    /\ optimality = opt
    /\ sigma = sg
    /\ heap = [a \in {Addr} |-> Unfitted]
    /\ pc = "idle"
    /\ n_jobs = 0
    /\ clf = NoClf
    /\ livePools = 0
    /\ taskq = 0
    /\ running = <<>>
    /\ results = <<>>
    /\ errors = <<>>
    /\ outcome = NoOutcome
    /\ selected1 = {}

DefaultSigma == 1

\* Documented configurations on two-class data, pools up to MaxUnlabeled.
InitDeep ==
    \E pool \in SeqsUpTo(GoodRows, MaxUnlabeled), kind \in Kinds :
        Constructed(<<Labeled(<<0>>, 0), Labeled(<<1>>, 1)>> \o Pool2Data(pool),
                    kind, "trace", DefaultSigma)

\* Every configuration, labeled part and row, pools up to MaxSmallPool.
InitWide ==
    \E lab \in LabeledChoices, pool \in SeqsUpTo(Rows, MaxSmallPool),
       kind \in Kinds, opt \in Optimalities, sg \in Sigmas :
        Constructed(lab \o Pool2Data(pool), kind, opt, sg)

Init == InitDeep \/ InitWide

\* ---------------------------------------------------------------- actions
Raise(origin) ==
    /\ outcome' = [kind |-> "raise", value |-> 0, origin |-> origin]
    /\ pc' = "idle"
    /\ n_jobs' = 0
    /\ clf' = NoClf
    /\ taskq' = 0
    /\ running' = <<>>
    /\ results' = <<>>

\* make_query, lines 90-101: the entries are unpacked and the baseline trained.
make_query_train(j) ==
    /\ pc = "idle"
    /\ livePools < MaxPools
    /\ errors' = <<>>
    /\ UNCHANGED <<dataset, model, optimality, sigma, livePools, selected1>>
    /\ IF labeled_entries = <<>> THEN Raise("make_query:91") /\ UNCHANGED heap
       ELSE IF unlabeled_entries = <<>> THEN Raise("make_query:96") /\ UNCHANGED heap
       ELSE LET t == train(copy_copy(model), heap, Xlabeled, y_, label_count)
            IN /\ clf' = t.obj
               /\ heap' = t.heap
               /\ n_jobs' = j
               /\ pc' = "trained"
               /\ outcome' = NoOutcome
               /\ UNCHANGED <<taskq, running, results>>

\* make_query, lines 103-106: the pool is created and the tasks are queued.
make_query_dispatch ==
    /\ pc = "trained"
    /\ livePools' = livePools + 1
    /\ taskq' = 1
    /\ running' = <<>>
    /\ results' = [c \in 1..NumChunks(Len(X_pool), n_jobs) |-> [st |-> "pending", vals |-> <<>>]]
    /\ pc' = "mapping"
    /\ UNCHANGED <<dataset, model, optimality, sigma, heap, n_jobs, clf, errors,
                   outcome, selected1>>

\* A free worker receives the next chunk: it unpickles self and the argument
\* tuples (Xlabeled, y, x, clf, label_count) of the chunk's candidates, so the
\* estimator that self.model and clf reference is one object of its own memory.
worker_take ==
    /\ pc = "mapping"
    /\ taskq <= Len(results)
    /\ Cardinality(DOMAIN running) < n_jobs
    /\ running' = [c \in DOMAIN running \cup {taskq} |->
                     IF c = taskq
                     THEN [pos |-> 0, vals |-> <<>>, self_model |-> model,
                           self_sigma |-> sigma, X |-> Xlabeled, y |-> y_,
                           qxs |-> ChunkRows(X_pool, n_jobs, taskq),
                           clf |-> clf, label_count |-> label_count, heap |-> heap]
                     ELSE running[c]]
    /\ taskq' = taskq + 1
    /\ UNCHANGED <<dataset, model, optimality, sigma, heap, pc, n_jobs, clf,
                   livePools, results, errors, outcome, selected1>>

\* The worker of chunk c runs E on the chunk's next candidate; after the last
\* one, or when E raises, it sends the chunk's result and is free again.
worker_run_E(c) ==
    /\ pc = "mapping"
    /\ c \in DOMAIN running
    /\ LET w == running[c]
           rest == [d \in DOMAIN running \ {c} |-> running[d]]
       IN \E r \in {E(w.self_model, w.self_sigma, w.X, w.y, w.qxs[w.pos + 1],
                       w.clf, w.label_count, w.heap)} :
          IF r.raised
          THEN /\ results' = [results EXCEPT ![c] = [st |-> "fail", vals |-> <<>>]]
               /\ running' = rest
          ELSE IF w.pos + 1 = Len(w.qxs)
          THEN /\ results' = [results EXCEPT
                               ![c] = [st |-> "ok", vals |-> Append(w.vals, r.ret)]]
               /\ running' = rest
          ELSE /\ running' = [running EXCEPT
                               ![c] = [w EXCEPT !.pos = w.pos + 1,
                                                !.vals = Append(w.vals, r.ret),
                                                !.heap = r.heap]]
               /\ UNCHANGED results
    /\ UNCHANGED <<dataset, model, optimality, sigma, heap, pc, n_jobs, clf,
                   livePools, taskq, errors, outcome, selected1>>

\* p.map returns the results of all chunks, in the order of the chunks.
map_return ==
    /\ pc = "mapping"
    /\ \A c \in 1..Len(results) : results[c].st = "ok"
    /\ errors' = Concat([c \in 1..Len(results) |-> results[c].vals])
    /\ pc' = "collected"
    /\ UNCHANGED <<dataset, model, optimality, sigma, heap, n_jobs, clf, livePools,
                   taskq, running, results, outcome, selected1>>

\* p.map re-raises the exception of a failed chunk, as soon as it arrives or
\* after further chunks have ended (either, by the Python version): make_query
\* is left at line 105, before p.terminate(), and the pool stays alive.
map_raise ==
    /\ pc = "mapping"
    /\ \E c \in 1..Len(results) : results[c].st = "fail"
    /\ Raise("E")
    /\ UNCHANGED <<dataset, model, optimality, sigma, heap, livePools, errors,
                   selected1>>

\* make_query, lines 107-108.
make_query_return ==
    /\ pc = "collected"
    /\ livePools' = livePools - 1
    /\ outcome' = [kind |-> "return", value |-> SelectId(unlabeled_entry_ids, errors),
                   origin |-> "none"]
    /\ selected1' = IF n_jobs = 1
                    THEN selected1 \cup {SelectId(unlabeled_entry_ids, errors)}
                    ELSE selected1
    /\ pc' = "idle"
    /\ n_jobs' = 0
    /\ clf' = NoClf
    /\ taskq' = 0
    /\ running' = <<>>
    /\ results' = <<>>
    /\ UNCHANGED <<dataset, model, optimality, sigma, heap, errors>>

Next ==
    \/ \E j \in 1..MaxJobs : make_query_train(j)
    \/ make_query_dispatch
    \/ worker_take
    \/ \E c \in DOMAIN running : worker_run_E(c)
    \/ map_return
    \/ map_raise
    \/ make_query_return

Spec == Init /\ [][Next]_vars

\* ----------------------------------------------------------------- claims
Returned == pc = "idle" /\ outcome.kind = "return"
Raised == pc = "idle" /\ outcome.kind = "raise"
InCall == pc \in {"trained", "mapping", "collected"}

UnlabeledIds == {k - 1 : k \in {j \in 1..Len(dataset) : dataset[j].y = <<>>}}
LabeledIds == {k - 1 : k \in {j \in 1..Len(dataset) : dataset[j].y # <<>>}}

\* C1: whenever make_query returns normally, the value returned is the
\* identifier of an unlabeled entry of the dataset and of no labeled entry.
C1_ReturnsUnlabeledId ==
    Returned => outcome.value \in UnlabeledIds /\ outcome.value \notin LabeledIds

\* A call returned on a dataset that holds labeled and unlabeled entries.
C1_Witness ==
    Returned /\ LabeledIds # {} /\ Cardinality(UnlabeledIds) >= 2

\* Position, in the enumeration of the unlabeled entries, of identifier id.
PositionOf(id) == CHOOSE k \in 1..Len(unlabeled_entry_ids) : unlabeled_entry_ids[k] = id

\* C2: the identifier returned is that of the candidate whose E value is the
\* minimum over all candidates, and of the first such candidate when several
\* candidates have the minimum value.
C2_ReturnsFirstMinimum ==
    Returned =>
        LET k == PositionOf(outcome.value)
        IN /\ Len(errors) = Len(unlabeled_entry_ids)
           /\ \A j \in 1..Len(errors) : errors[k] <= errors[j]
           /\ \A j \in 1..(k - 1) : errors[j] > errors[k]

\* A call returned a candidate that is not the first, and a later candidate
\* ties with it on the minimum.
C2_Witness ==
    /\ Returned
    /\ LET k == PositionOf(outcome.value)
       IN /\ k > 1
          /\ \E j \in (k + 1)..Len(errors) : errors[j] = errors[k]

\* C3: the identifier selected is the same for n_jobs = 1 and for n_jobs > 1.
C3_SameSelectionForAnyJobs ==
    Returned => \A id \in selected1 : outcome.value = id

\* C4: no make_query call ends with the pool it created still alive.
C4_PoolReleasedOnExit ==
    pc = "idle" => livePools = 0

\* C5: while optimality is not 'trace', no make_query call trains a classifier
\* or dispatches a task.
C5_NonTraceRejected ==
    optimality # "trace" => ~InCall

\* C6: with sigma <= 0 the configuration is rejected: no classifier is trained,
\* no task is dispatched and Phi is never evaluated.
C6_NonPositiveSigmaRejected ==
    sigma <= 0 =>
        /\ ~InCall
        /\ \A c \in DOMAIN results : results[c].st # "ok"

\* C7: in every E task the baseline classifier stays the classifier trained on
\* exactly the labeled set, whatever copies the task has trained.
C7_BaselineNeverMutated ==
    \A c \in DOMAIN running :
        Params(running[c].clf, running[c].heap) = Fit(Xlabeled, y_, label_count)

\* Probabilities, in percent, that a classifier of state p gives for the rows.
Probabilities(p, rows) ==
    [r \in 1..Len(rows) |->
       [i \in 1..Len(p.coef) |-> sigmoid1(Clamp(p.coef[i] * rows[r][1] + p.intercept[i]))]]

\* Sum over the labels of the baseline probability of the label at qx times
\* Phi on the predictions of a classifier retrained with (qx, label) appended.
ExpectedRisk(baseline, sg, X, y, qx, L) ==
    SumSeq([i \in 1..L |->
        LET PI == Probabilities(Fit(Append(X, qx), Append(y, i - 1), L), Append(X, qx))
        IN Probabilities(baseline, <<qx>>)[1][i]
             * Phi(sg, Front(PI), X, Last(PI), qx, L, Len(X[1]))])

\* C8: the value an E task returns is the probability-weighted sum of the
\* per-label Phi values, the weights being the predictions at the candidate
\* of the baseline classifier the task was given.
C8_WeightedSumOfPhi ==
    [][\A c \in DOMAIN running :
         LET w == running[c]
             qx == X_pool[ChunkItems(Len(X_pool), n_jobs, c)[w.pos + 1]]
             want == ExpectedRisk(Params(w.clf, w.heap), sigma, Xlabeled, y_, qx,
                                  label_count)
         IN /\ (c \in DOMAIN running' /\ running'[c] # w)
                  => Last(running'[c].vals) = want
            /\ (c \notin DOMAIN running' /\ pc' = "mapping" /\ results'[c].st = "ok")
                  => Last(results'[c].vals) = want]_vars

\* p.map returned the values of five or more candidates, the later ones of a
\* chunk computed with an estimator the earlier ones had refitted.
C8_Witness ==
    /\ pc = "collected"
    /\ model.kind = "inner"
    /\ ChunkSize(Len(X_pool), n_jobs) > 1
    /\ \E j, k \in 1..Len(errors) : errors[j] # errors[k]

\* C9: E tasks of one call given the same candidate return the same value.
C9_SameInputsSameValue ==
    pc = "collected" =>
        \A j, k \in 1..Len(errors) : X_pool[j] = X_pool[k] => errors[j] = errors[k]

\* C10: with an empty labeled set, a failure of make_query is the one raised by
\* the classifier's train.
C10_EmptyLabeledFailsInTrain ==
    (Raised /\ LabeledIds = {}) => outcome.origin = "clf.train"

====
